---- MODULE Spec2Model ----
(***************************************************************************)
(* Keyboard-proximity typo engine of pl-llm-errors:                        *)
(* src/src/errors/typo_error_generator.py (_TypoEngine), whose             *)
(* near-duplicate is src/src/multypo/core.py (MultiTypoGenerator).         *)
(*                                                                         *)
(* A Python str is a sequence of one-character strings.  The nine Polish   *)
(* diacritic letters are written in ASCII as the key they sit on followed  *)
(* by ^ ("a^" is a-ogonek, "x^" is z-acute, which shares the x key, "z^"   *)
(* is z-dot, ...); each is still ONE character of the word.  Indices kept  *)
(* in the state (idxs, word_idx) are Python's 0-based indices; the         *)
(* operators convert when they index a TLA+ sequence.                      *)
(***************************************************************************)
EXTENDS Integers, Sequences, FiniteSets, TLC

VARIABLES
    \* the engine's fields (_TypoEngine dataclass), set at construction
    use_excluding_set,      \* bool
    typo_distribution,      \* dict, in insertion order: <<name, weight numerator, denominator>>
    horizontal_vs_vertical, \* (h_weight, v_weight), in tenths
    \* one insert_typos call: its parameters, its locals and where it stands
    pc,                     \* "idle", "outer", "select", "attempt", "join", "done", "raised";
                            \* "constructed", "construct_raised", "registered", "register_raised";
                            \* "operated", "operation_raised", "resolved"
    text, typo_rate, max_tries,
    words,                  \* list of [word, history...]: slot k is [w |-> str, history |-> entries]
    typos_target,
    weights,                \* per slot, the fraction <<numerator, denominator>>
    typoed, tries, new_word, ignore, is_valid,
    word_idx, word, typo_function, idxs,
    result,                 \* the returned str, once pc = "done"; the returned list of
                            \* candidates, once pc = "resolved"
    \* the module-level state of multypo/core.py: the layout registry
    LANGUAGES,              \* dict language name -> lang_code
    KEYBOARDS,              \* dict lang_code -> keyboard rows (_GLOBAL_KEYBOARDS is the same dict)
    LEFT_RIGHTS,            \* dict lang_code -> [left, right]
    IGNORES,                \* dict lang_code -> set of tokens
    registering,            \* the arguments of the latest register_keyboard_layout call
    \* the TypoErrorGenerator objects and the module-level generator of `random`
    instances,              \* dict object -> [_engine, _typo_rate]
    rng,                    \* [seed, drawn]: the latest random.seed and the draws since
    applying,               \* the object whose __init__ or apply is running, "" if none
    multi                   \* the latest MultiTypoGenerator built: <<>> or <<its fields>>

engine == <<use_excluding_set, typo_distribution, horizontal_vs_vertical>>
call == <<text, typo_rate, max_tries>>
locals == <<words, typos_target, weights, typoed, tries, new_word, ignore, is_valid,
            word_idx, word, typo_function, idxs>>
registry == <<LANGUAGES, KEYBOARDS, LEFT_RIGHTS, IGNORES>>
\* what insert_typos neither reads nor writes, `random` apart
outside == <<registry, registering, instances, rng, applying, multi>>
vars == <<engine, call, locals, pc, result, outside>>

(***************************************************************************)
(* Module data of typo_error_generator.py                                  *)
(***************************************************************************)
_KEYBOARD ==
    << <<"q", "w", "e", "r", "t", "y", "u", "i", "o", "p">>,
       <<"a", "s", "d", "f", "g", "h", "j", "k", "l">>,
       <<"z", "x", "c", "v", "b", "n", "m">> >>

_ALTGR_KEYBOARD ==
    << <<"q", "w", "e^", "r", "t", "y", "u", "i", "o^", "p">>,
       <<"a^", "s^", "d", "f", "g", "h", "j", "k", "l^">>,
       <<"z^", "x^", "c^", "v", "b", "n^", "m">> >>

_LEFT_RIGHT ==
    [left  |-> {"q", "w", "e", "r", "t", "a", "s", "d", "f", "g", "z", "x", "c", "v", "b",
                "e^", "a^", "s^", "c^", "z^", "x^"},
     right |-> {"y", "u", "i", "o", "p", "h", "j", "k", "l", "n", "m",
                "o^", "l^", "n^"}]

\* the keys of _DIACRITICAL_MAP with the base letter each maps to
_DIACRITICAL_MAP ==
    { <<"a^", "a">>, <<"e^", "e">>, <<"s^", "s">>, <<"c^", "c">>, <<"z^", "z">>,
      <<"x^", "x">>, <<"l^", "l">>, <<"o^", "o">>, <<"n^", "n">> }

_IGNORE_SET ==
    {
      <<"z", "e", "r", "o">>, <<"j", "e", "d", "e", "n">>, <<"j", "e", "d", "n", "a">>,
      <<"j", "e", "d", "n", "o">>, <<"d", "w", "a">>, <<"d", "w", "i", "e">>,
      <<"t", "r", "z", "y">>, <<"c", "z", "t", "e", "r", "y">>, <<"p", "i", "e^", "c^">>,
      <<"s", "z", "e", "s^", "c^">>, <<"s", "i", "e", "d", "e", "m">>, <<"o", "s", "i", "e", "m">>,
      <<"d", "z", "i", "e", "w", "i", "e^", "c^">>, <<"d", "z", "i", "e", "s", "i", "e^", "c^">>,
      <<"j", "e", "d", "e", "n", "a", "s^", "c", "i", "e">>,
      <<"d", "w", "a", "n", "a", "s^", "c", "i", "e">>,
      <<"t", "r", "z", "y", "n", "a", "s^", "c", "i", "e">>,
      <<"c", "z", "t", "e", "r", "n", "a", "s^", "c", "i", "e">>,
      <<"p", "i", "e^", "t", "n", "a", "s^", "c", "i", "e">>,
      <<"s", "z", "e", "s", "n", "a", "s^", "c", "i", "e">>,
      <<"s", "i", "e", "d", "e", "m", "n", "a", "s^", "c", "i", "e">>,
      <<"o", "s", "i", "e", "m", "n", "a", "s^", "c", "i", "e">>,
      <<"d", "z", "i", "e", "w", "i", "e^", "t", "n", "a", "s^", "c", "i", "e">>,
      <<"d", "w", "a", "d", "z", "i", "e", "s^", "c", "i", "a">>,
      <<"t", "r", "z", "y", "d", "z", "i", "e", "s^", "c", "i">>,
      <<"c", "z", "t", "e", "r", "d", "z", "i", "e", "s^", "c", "i">>,
      <<"p", "i", "e^", "c^", "d", "z", "i", "e", "s", "i", "a^", "t">>,
      <<"s", "z", "e", "s^", "c^", "d", "z", "i", "e", "s", "i", "a^", "t">>,
      <<"s", "i", "e", "d", "e", "m", "d", "z", "i", "e", "s", "i", "a^", "t">>,
      <<"o", "s", "i", "e", "m", "d", "z", "i", "e", "s", "i", "a^", "t">>,
      <<"d", "z", "i", "e", "w", "i", "e^", "c^", "d", "z", "i", "e", "s", "i", "a^", "t">>,
      <<"s", "t", "o">>, <<"d", "w", "i", "e", "s^", "c", "i", "e">>,
      <<"t", "y", "s", "i", "a^", "c">>, <<"m", "i", "l", "i", "o", "n">>,
      <<"m", "i", "l", "i", "a", "r", "d">>,
      <<"1">>, <<"2">>, <<"3">>, <<"4">>, <<"5">>, <<"6">>, <<"7">>, <<"8">>, <<"9">>, <<"0">>
    }

_DEFAULT_TYPO_DISTRIBUTION ==
    << <<"delete", 28>>, <<"insert", 15>>, <<"replace", 28>>, <<"transpose", 28>> >>

(***************************************************************************)
(* Python built-ins the engine calls, on sequences of characters           *)
(***************************************************************************)
LowerLetters ==
    <<"a", "b", "c", "d", "e", "f", "g", "h", "i", "j", "k", "l", "m", "n", "o", "p", "q",
      "r", "s", "t", "u", "v", "w", "x", "y", "z",
      "a^", "e^", "s^", "c^", "z^", "x^", "l^", "o^", "n^">>

UpperLetters ==
    <<"A", "B", "C", "D", "E", "F", "G", "H", "I", "J", "K", "L", "M", "N", "O", "P", "Q",
      "R", "S", "T", "U", "V", "W", "X", "Y", "Z",
      "A^", "E^", "S^", "C^", "Z^", "X^", "L^", "O^", "N^">>

\* str.isupper() of one character
isupper(char) == \E k \in 1..Len(UpperLetters) : UpperLetters[k] = char

\* str.lower() of one character
lower(char) ==
    IF isupper(char)
    THEN LowerLetters[CHOOSE k \in 1..Len(UpperLetters) : UpperLetters[k] = char]
    ELSE char

\* str.upper() of one character
upper(char) ==
    IF \E k \in 1..Len(LowerLetters) : LowerLetters[k] = char
    THEN UpperLetters[CHOOSE k \in 1..Len(LowerLetters) : LowerLetters[k] = char]
    ELSE char

\* str.lower() of a word
lower_word(w) == [k \in 1..Len(w) |-> lower(w[k])]

\* the characters str.strip() removes
Whitespace == {" ", "\n"}

\* `needle in hay` on strings
Contains(hay, needle) ==
    \E s \in 0..(Len(hay) - Len(needle)) :
        \A k \in 1..Len(needle) : hay[s + k] = needle[k]

\* s.split(" "): the runs between single spaces, empty runs kept
split(s) ==
    LET IsSpace(k) == s[k] = " "
        at == SelectSeq([k \in 1..Len(s) |-> k], IsSpace)
        From(j) == IF j = 1 THEN 1 ELSE at[j - 1] + 1
        To(j) == IF j = Len(at) + 1 THEN Len(s) ELSE at[j] - 1
    IN  [j \in 1..(Len(at) + 1) |-> SubSeq(s, From(j), To(j))]

\* str.strip(): leading and trailing whitespace removed
strip(s) ==
    IF \A k \in 1..Len(s) : s[k] \in Whitespace
    THEN <<>>
    ELSE LET a == CHOOSE k \in 1..Len(s) :
                      s[k] \notin Whitespace /\ \A j \in 1..(k - 1) : s[j] \in Whitespace
             b == CHOOSE k \in 1..Len(s) :
                      s[k] \notin Whitespace /\ \A j \in (k + 1)..Len(s) : s[j] \in Whitespace
         IN  SubSeq(s, a, b)

\* sum(s), by halves
RECURSIVE SumSeq(_)
SumSeq(s) ==
    IF s = <<>> THEN 0
    ELSE IF Len(s) = 1 THEN s[1]
    ELSE SumSeq(SubSeq(s, 1, Len(s) \div 2)) + SumSeq(SubSeq(s, Len(s) \div 2 + 1, Len(s)))

RECURSIVE Pow(_, _)
Pow(b, e) == IF e = 0 THEN 1 ELSE b * Pow(b, e - 1)

Range(s) == { s[k] : k \in 1..Len(s) }

Max(S) == CHOOSE x \in S : \A y \in S : y <= x

Repeat(x, n) == [k \in 1..n |-> x]

\* the concatenation of the sequences of ss, by halves
RECURSIVE Flatten(_)
Flatten(ss) ==
    IF ss = <<>> THEN <<>>
    ELSE IF Len(ss) = 1 THEN ss[1]
    ELSE Flatten(SubSeq(ss, 1, Len(ss) \div 2)) \o Flatten(SubSeq(ss, Len(ss) \div 2 + 1, Len(ss)))

(***************************************************************************)
(* Numbers.  A float the engine computes is kept exactly, as a fraction:   *)
(* typo_rate and a selection weight are pairs <<numerator, denominator>>,  *)
(* a value rounded to `position` decimals is the integer count of          *)
(* 10^-position units.                                                     *)
(***************************************************************************)
\* _round_it(num / den, position), in units of 10^-position: int() truncates, which
\* for the non-negative numbers the engine rounds is the floor
_round_it(num, den, position) ==
    (2 * num * Pow(10, position) + den) \div (2 * den)

\* math.sqrt keeps SqrtScale units per 1: the floor of SqrtScale * sqrt(n)
SqrtScale == 1000

RECURSIVE IsqrtBetween(_, _, _)
IsqrtBetween(n, lo, hi) ==
    IF hi - lo <= 1 THEN lo
    ELSE LET mid == (lo + hi) \div 2
         IN  IF mid * mid <= n THEN IsqrtBetween(n, mid, hi) ELSE IsqrtBetween(n, lo, mid)

sqrt(n) ==
    LET k == CHOOSE r \in 1..(n + 1) : r * r > n /\ (r - 1) * (r - 1) <= n
    IN  IsqrtBetween(n * SqrtScale * SqrtScale, 0, k * SqrtScale)

\* int(round(x)) of the float tenths / 10: Python 3 rounds a half to the even integer
PyRound(tenths) ==
    LET q == tenths \div 10
        r == tenths % 10
    IN  IF r > 5 \/ (r = 5 /\ q % 2 = 1) THEN q + 1 ELSE q

\* random.choices(population, weights, k=1): the 0-based indices it can return, those
\* of positive weight
choices(ws) == { i \in 0..(Len(ws) - 1) : ws[i + 1] > 0 }

\* random.choices raises ValueError("Total of weights must be greater than zero")
choices_raises(ws) == SumSeq(ws) <= 0

(***************************************************************************)
(* Position Weighter                                                       *)
(***************************************************************************)
\* _get_weights_of_idx: the weights in hundredths; only the length of w (a word,
\* or the list of transposable pairs) is used
_get_weights_of_idx(w) ==
    LET n == Len(w)
        \* 0.1 + (0.2 - 0.1) * (i / (n - 2)), in units of 0.1 / (n - 2)
        raw == <<0>> \o [k \in 1..(n - 1) |-> (n - 2) + (k - 1)]
    IN  IF n = 1 THEN <<0>>
        ELSE IF n = 2 THEN <<0, 100>>
        ELSE [k \in 1..n |-> _round_it(raw[k], SumSeq(raw), 2)]

(***************************************************************************)
(* Neighbor Resolver                                                       *)
(***************************************************************************)
RECURSIVE RowMajor(_, _)
RowMajor(grid, r) ==
    IF r > Len(grid) THEN <<>>
    ELSE [c \in 1..Len(grid[r]) |-> <<r, c>>] \o RowMajor(grid, r + 1)

\* the candidates one matching cell <<r, c>> (1-based) contributes
CellNeighbours(grid, p, hv) ==
    LET r == p[1]
        c == p[2]
        h == Max({1, PyRound(hv[1])})
        v == Max({1, PyRound(hv[2])})
        left  == IF c > 1 /\ grid[r][c - 1] # "" THEN Repeat(grid[r][c - 1], h) ELSE <<>>
        right == IF c < Len(grid[r]) /\ grid[r][c + 1] # ""
                 THEN Repeat(grid[r][c + 1], h) ELSE <<>>
        up    == IF r > 1 /\ c <= Len(grid[r - 1]) /\ grid[r - 1][c] # ""
                 THEN Repeat(grid[r - 1][c], v) ELSE <<>>
        down  == IF r < Len(grid) /\ c <= Len(grid[r + 1]) /\ grid[r + 1][c] # ""
                 THEN Repeat(grid[r + 1][c], v) ELSE <<>>
    IN  left \o right \o up \o down

\* the primary grid is searched for every character
_get_neighbours_primary_only(char) ==
    LET grid == _KEYBOARD
        Matches(p) == grid[p[1]][p[2]] = char
        positions == SelectSeq(RowMajor(grid, 1), Matches)
    IN  Flatten([k \in 1..Len(positions) |->
                    CellNeighbours(grid, positions[k], horizontal_vs_vertical)])

\* _get_neighbours_with_orientation(char)
_get_neighbours_with_orientation(char) ==
    LET grid == IF \E e \in _DIACRITICAL_MAP : e[1] = char
                THEN _ALTGR_KEYBOARD ELSE _KEYBOARD
        Matches(p) == grid[p[1]][p[2]] = char
        positions == SelectSeq(RowMajor(grid, 1), Matches)
    IN  Flatten([k \in 1..Len(positions) |->
                    CellNeighbours(grid, positions[k], horizontal_vs_vertical)])

_belongs_to_hand(char) ==
    IF char \in _LEFT_RIGHT.left THEN "left"
    ELSE IF char \in _LEFT_RIGHT.right THEN "right"
    ELSE "None"

(***************************************************************************)
(* Edit Operations.  Each takes the word and returns the set of outcomes   *)
(* its random draws can produce: [new_word, idxs, raised], idxs being the  *)
(* tuple the method returns (<<>> for None) and raised telling that        *)
(* random.choices raised ValueError on an all-zero weight list.            *)
(***************************************************************************)
None == <<>>

Raised == [new_word |-> <<>>, idxs |-> None, raised |-> TRUE]

Returned(w, t) == [new_word |-> w, idxs |-> t, raised |-> FALSE]

\* word_list[idx] = c (idx 0-based)
SetAt(word_list, idx, c) == [word_list EXCEPT ![idx + 1] = c]

\* del word_list[idx - 1]: the character before the sampled one goes
DelAtBefore(word_list, idx) ==
    SubSeq(word_list, 1, idx - 1) \o SubSeq(word_list, idx + 1, Len(word_list))

\* del word_list[idx]
DelAt(word_list, idx) ==
    SubSeq(word_list, 1, idx) \o SubSeq(word_list, idx + 2, Len(word_list))

\* word_list.insert(idx, c)
InsertAt(word_list, idx, c) ==
    SubSeq(word_list, 1, idx) \o <<c>> \o SubSeq(word_list, idx + 1, Len(word_list))

\* the candidates as the grid has them, whatever the case of `char`
UncasedNeighbours(char) ==
    Range(_get_neighbours_with_orientation(lower(char)))

\* the replacement / inserted characters random.choice(neighbours) can give for `char`,
\* in the case of `char`
CasedNeighbours(char) ==
    { IF isupper(char) THEN upper(c) ELSE c :
        c \in Range(_get_neighbours_with_orientation(lower(char))) }

\* _replace with idx sampled and the replacement chosen
ReplaceAt(word_list, idx, replacement) ==
    LET differing == { i \in 0..(idx - 1) : word_list[i + 1] # word_list[idx + 1] }
    IN  IF differing # {} /\ idx - Max(differing) = 2
        THEN SetAt(SetAt(word_list, Max(differing) + 1, replacement), idx, replacement)
        ELSE IF idx # Len(word_list) - 1 /\ word_list[idx + 1] = word_list[idx + 2]
        THEN SetAt(SetAt(word_list, idx + 1, replacement), idx, replacement)
        ELSE SetAt(word_list, idx, replacement)

_replace(w) ==
    LET w_idx == _get_weights_of_idx(w)
    IN  IF choices_raises(w_idx) THEN {Raised}
        ELSE UNION { IF CasedNeighbours(w[idx + 1]) = {}
                     THEN { Returned(w, <<idx>>) }
                     ELSE { Returned(ReplaceAt(w, idx, replacement), <<idx>>) :
                              replacement \in CasedNeighbours(w[idx + 1]) } :
                     idx \in choices(w_idx) }

_delete(w) ==
    LET w_idx == _get_weights_of_idx(w)
    IN  IF choices_raises(w_idx) THEN {Raised}
        ELSE { Returned(DelAt(w, idx), <<idx>>) : idx \in choices(w_idx) }

_insert(w) ==
    LET w_idx == _get_weights_of_idx(w)
    IN  IF choices_raises(w_idx) THEN {Raised}
        ELSE UNION { IF CasedNeighbours(w[idx + 1]) = {}
                     THEN { Returned(w, <<idx + 1>>) }
                     ELSE { Returned(InsertAt(w, idx + 1, inserted), <<idx + 1>>) :
                              inserted \in CasedNeighbours(w[idx + 1]) } :
                     idx \in choices(w_idx) }

\* the (i, i + 1) pairs of word[1:] _transpose may swap, in order
transposable(w) ==
    LET word_list == Tail(w)
        Eligible(i) ==
            LET first_hand == _belongs_to_hand(lower(word_list[i + 1]))
                second_hand == _belongs_to_hand(lower(word_list[i + 2]))
            IN  \/ (first_hand # "None" /\ second_hand # "None" /\ first_hand # second_hand)
                \/ word_list[i + 2] = " "
        Pair(i) == <<i, i + 1>>
        Keep(p) == Eligible(p[1])
    IN  SelectSeq([k \in 1..(Len(word_list) - 1) |-> Pair(k - 1)], Keep)

\* every eligible pair may be chosen
_transpose_any_pair(w) ==
    LET word_list == Tail(w)
        pairs == transposable(w)
        Swap(p) == SetAt(SetAt(word_list, p[1], word_list[p[2] + 1]), p[2], word_list[p[1] + 1])
    IN  IF Len(w) <= 1 THEN { Returned(w, None) }
        ELSE IF pairs = <<>> THEN { Returned(w, None) }
        ELSE { Returned(<<w[1]>> \o Swap(pairs[k]), pairs[k]) : k \in 1..Len(pairs) }

_transpose(w) ==
    LET word_list == Tail(w)
        pairs == transposable(w)
        w_idx == _get_weights_of_idx(pairs)
        Swap(p) == SetAt(SetAt(word_list, p[1], word_list[p[2] + 1]), p[2], word_list[p[1] + 1])
    IN  IF Len(w) <= 1 THEN { Returned(w, None) }
        ELSE IF pairs = <<>> THEN { Returned(w, None) }
        ELSE IF SumSeq(w_idx) = 0 THEN { Returned(w, None) }
        ELSE { Returned(<<w[1]>> \o Swap(pairs[k + 1]), pairs[k + 1]) : k \in choices(w_idx) }

(***************************************************************************)
(* Bound methods.  Evaluating self._replace builds a new bound-method      *)
(* object each time.  typo_funcs (built once per call) holds four such     *)
(* objects; typo_function and every history entry hold one of those four.  *)
(* `a is b` compares the objects, `a == b` and set membership compare the  *)
(* function bound (and the instance, which is always self).                *)
(***************************************************************************)
TypoNames == {"delete", "insert", "replace", "transpose"}

\* the table maps "delete" to self._insert
typo_funcs_mismatched ==
    [name \in TypoNames |->
        [func |-> IF name = "delete" THEN "insert" ELSE name, object |-> "typo_funcs"]]

\* typo_funcs = {"delete": self._delete, ...}
typo_funcs == [name \in TypoNames |-> [func |-> name, object |-> "typo_funcs"]]

\* the object the expression self._<name> evaluates to inside a condition
self_method(name) == [func |-> name, object |-> "retrieved"]

\* a is b
Is(a, b) == a = b

\* a in {self._<name> for name in names}
InMethods(a, names) == a.func \in names

\* the call typo_function(word)
Apply(f, w) ==
    CASE f.func = "delete"    -> _delete(w)
      [] f.func = "insert"    -> _insert(w)
      [] f.func = "replace"   -> _replace(w)
      [] f.func = "transpose" -> _transpose(w)

(***************************************************************************)
(* Conflict Validator                                                      *)
(***************************************************************************)
SharesIndex(prev_idx, new_idxs) == \E k \in 1..Len(prev_idx) : prev_idx[k] \in Range(new_idxs)

\* one pass of the loop body of _is_valid_operation: TRUE when it returns False
ReturnsFalse(prev_operation, prev_idx, new_idxs, f) ==
    \/ /\ Is(prev_operation, self_method("replace"))
       /\ \/ Is(f, self_method("insert")) /\ prev_idx[1] + 1 = new_idxs[1]
          \/ prev_idx = new_idxs
          \/ SharesIndex(prev_idx, new_idxs)
    \/ /\ Is(prev_operation, self_method("delete"))
       /\ Is(f, self_method("transpose"))
       /\ prev_idx[1] = new_idxs[2]
    \/ /\ Is(prev_operation, self_method("insert"))
       /\ \/ /\ InMethods(f, {"replace", "delete"})
             /\ (prev_idx = new_idxs \/ prev_idx[1] - 1 = new_idxs[1])
          \/ /\ Is(f, self_method("insert"))
             /\ (prev_idx = new_idxs \/ prev_idx[1] + 1 = new_idxs[1])
          \/ /\ Is(f, self_method("transpose"))
             /\ (prev_idx = new_idxs \/ SharesIndex(prev_idx, new_idxs))
    \/ /\ Is(prev_operation, self_method("transpose"))
       /\ InMethods(f, {"transpose", "insert", "delete"})
       /\ (prev_idx = new_idxs \/ SharesIndex(prev_idx, new_idxs))

\* word_history is the slot [word, entry, ...]: its entries are word_history[1:]
_is_valid_operation(word_history, new_idxs, f) ==
    \A k \in 1..Len(word_history.history) :
        ~ReturnsFalse(word_history.history[k].op, word_history.history[k].idxs, new_idxs, f)

(***************************************************************************)
(* Inputs                                                                  *)
(***************************************************************************)
\* max_tries is drawn from 0..MaxTries
MaxTries == 4

\* the number of words of the long text
LongTextWords == 201

\* "ab ab ... ab"
LongText == Flatten([k \in 1..LongTextWords |->
                        IF k = 1 THEN <<"a", "b">> ELSE <<" ", "a", "b">>])

\* the length of the long word
LongWordLen == 268

\* "aaa...a", one word
LongWord == [k \in 1..LongWordLen |-> "a"]

Texts ==
    { <<>>,                                      \* ""
      <<"k", "o", "t", " ", "p", "s", "a">>,     \* "kot psa"
      <<"k", "O", "p", " ", "a">>,               \* "kOp a"
      <<"s", "t", "o", "\n">>,                   \* "sto\n"
      <<" ", "s", "t", "o">>,                    \* " sto"
      <<"S", "t", "o", " ", "d", "w", "a">>,     \* "Sto dwa"
      <<"a", " ", "\n", "c">>,                   \* "a \nc"
      LongText,
      LongWord }

\* typo_rate, as <<numerator, denominator>>
TypoRates == { <<0, 1>>, <<1, 4>>, <<1, 1>> }

\* typo_rate outside [0.0, 1.0]
OtherRates == { <<-1, 4>>, <<3, 2>> }

\* "kot psa" and "sto\n"
ShortTexts == { <<"k", "o", "t", " ", "p", "s", "a">>, <<"s", "t", "o", "\n">> }

\* typo_distribution as passed to the constructor: <<name, weight>> in dict order
Distributions ==
    { _DEFAULT_TYPO_DISTRIBUTION,
      << <<"delete", 1>> >>,
      << <<"insert", 1>>, <<"transpose", 3>> >> }

\* further arguments for the constructor: no mass, and a negative weight.  With
\* weights [2, -1] random.choices bisects cum_weights [2, 1] at random() * 1 and returns
\* index 0 on every draw, which is what choices gives
OtherDistributions ==
    { << <<"delete", 0>>, <<"insert", 0>> >>,
      << <<"delete", 2>>, <<"insert", -1>> >> }

\* a dict with no keys
EmptyDict == [k \in {} |-> <<>>]

\* d[k] = v
Put(d, k, v) == [x \in (DOMAIN d) \cup {k} |-> IF x = k THEN v ELSE d[x]]

\* d.setdefault(k, v)
setdefault(d, k, v) == IF k \in DOMAIN d THEN d ELSE Put(d, k, v)

\* the built-in tables of multypo/keyboards.py
BuiltinLanguages == [language \in {"english"} |-> "en"]

EnglishRows == << <<"q", "w", "e">>, <<"a", "s", "d">> >>

BuiltinKeyboards == [c \in {"en"} |-> EnglishRows]

BuiltinLeftRights == [c \in {"en"} |-> [left |-> {"q", "w", "a", "s"}, right |-> {"e", "d"}]]

BuiltinIgnores == [c \in {"en"} |-> {<<"o", "n", "e">>}]

\* the state of the modules after import, before any object is built
InitOutside ==
    /\ LANGUAGES = BuiltinLanguages
    /\ KEYBOARDS = BuiltinKeyboards
    /\ LEFT_RIGHTS = BuiltinLeftRights
    /\ IGNORES = BuiltinIgnores
    /\ registering = <<>>
    /\ multi = <<>>
    /\ instances = EmptyDict
    /\ rng = [seed |-> <<>>, drawn |-> 0]
    /\ applying = ""

(***************************************************************************)
(* Construction                                                            *)
(***************************************************************************)
\* _normalize_distribution: every weight divided by the total
_normalize_distribution(distribution) ==
    LET total == SumSeq([k \in 1..Len(distribution) |-> distribution[k][2]])
    IN  [k \in 1..Len(distribution) |-> <<distribution[k][1], distribution[k][2], total>>]

Init ==
    /\ use_excluding_set \in BOOLEAN
    /\ typo_distribution \in { _normalize_distribution(d) : d \in Distributions }
    /\ horizontal_vs_vertical = <<90, 10>>
    /\ pc = "idle"
    /\ text = <<>>
    /\ typo_rate = <<0, 1>>
    /\ max_tries = 0
    /\ words = <<>>
    /\ typos_target = 0
    /\ weights = <<>>
    /\ typoed = 0
    /\ tries = 0
    /\ new_word = <<>>
    /\ ignore = TRUE
    /\ is_valid = FALSE
    /\ word_idx = 0
    /\ word = <<>>
    /\ typo_function = typo_funcs["delete"]
    /\ idxs = None
    /\ result = <<>>
    /\ InitOutside

\* _TypoEngine(use_excluding_set, typo_distribution): the dataclass __init__ and
\* __post_init__ (lines 69-74); the new engine takes the place of the old one
__post_init__(use, distribution) ==
    /\ pc = "idle"
    /\ IF SumSeq([k \in 1..Len(distribution) |-> distribution[k][2]]) <= 0
       THEN /\ pc' = "construct_raised"
            /\ UNCHANGED engine
       ELSE /\ pc' = "constructed"
            /\ use_excluding_set' = use
            /\ typo_distribution' = _normalize_distribution(distribution)
            /\ horizontal_vs_vertical' = <<90, 10>>
    /\ UNCHANGED <<call, locals, result>>

\* the caller goes on after a constructor or a registration returned or raised
Resume ==
    /\ pc \in {"constructed", "construct_raised", "registered", "register_raised"}
    /\ pc' = "idle"
    /\ registering' = <<>>
    /\ applying' = ""
    /\ UNCHANGED <<engine, call, locals, result, registry, instances, rng, multi>>

(***************************************************************************)
(* Typo Orchestrator: insert_typos, one action per stretch of straight     *)
(* code between two loop tests                                             *)
(***************************************************************************)
\* the early return tests typos_target < 0 instead
BelowZero(target) == target < 0

\* typos_target < 0.5
BelowHalf(target) == 2 * target < 1

\* [math.sqrt(len(word[0])) for word in words], in 1/SqrtScale units: slots are the
\* words' strings
RawWeights(slots) == SubSeq([k \in 1..Len(slots) |-> sqrt(Len(slots[k]))], 1, Len(slots))

\* lines 266-291: up to the first test of the outer loop
Call(t, rate, mt) ==
    /\ pc = "idle"
    /\ text' = t
    /\ typo_rate' = rate
    /\ max_tries' = mt
    /\ \E slots \in {split(t)} :
       \E raw \in {RawWeights(slots)} :
       \E total \in {SumSeq(raw)} :
          LET target == _round_it(rate[1] * Len(slots), rate[2], 0)
          IN  /\ words' = [k \in 1..Len(slots) |-> [w |-> slots[k], history |-> <<>>]]
              /\ typos_target' = target
              /\ IF BelowHalf(target) \/ total = 0
                 THEN /\ pc' = "done"
                      /\ result' = t
                      /\ weights' = <<>>
                 ELSE /\ pc' = "outer"
                      /\ result' = <<>>
                      /\ weights' = [k \in 1..Len(slots) |->
                                        <<_round_it(raw[k], total, 2), 100>>]
    /\ typoed' = 0
    /\ tries' = 0
    /\ new_word' = <<>>
    /\ ignore' = TRUE
    /\ is_valid' = FALSE
    /\ word_idx' = 0
    /\ word' = <<>>
    /\ typo_function' = typo_funcs["delete"]
    /\ idxs' = None
    /\ UNCHANGED engine

\* the outer loop stops one edit short of the target
OuterTestOneShort == typoed + 1 < typos_target /\ tries <= max_tries

\* line 293: while typoed < typos_target and tries <= max_tries
OuterTest == typoed < typos_target /\ tries <= max_tries

\* line 294: while ignore and tries <= max_tries
SelectTest == ignore /\ tries <= max_tries

\* the operation loop stops when the word came back unchanged
AttemptTestStopOnNoop == (new_word # word /\ ~is_valid) /\ tries <= max_tries

\* line 313: while ((new_word == word) or not is_valid) and tries <= max_tries
AttemptTest == (new_word = word \/ ~is_valid) /\ tries <= max_tries

\* line 293: the test of the outer loop
WhileOuter ==
    /\ pc = "outer"
    /\ pc' = IF OuterTest THEN "select" ELSE "join"
    /\ UNCHANGED <<engine, call, locals, result>>

\* the ignore-set test without word.lower()
IgnoredCaseSensitive(w) ==
    \/ Len(w) <= 1
    \/ use_excluding_set /\ \E i \in _IGNORE_SET : Contains(w, i)

\* the length test skips only empty words
IgnoredOnlyEmpty(w) ==
    \/ Len(w) < 1
    \/ use_excluding_set /\ \E i \in _IGNORE_SET : Contains(lower_word(w), i)

\* is the word skipped (lines 301-308)
Ignored(w) ==
    \/ Len(w) <= 1
    \/ use_excluding_set /\ \E i \in _IGNORE_SET : Contains(lower_word(w), i)

\* lines 294-308: one pass of the word-selection loop
SelectWord ==
    /\ pc = "select"
    /\ SelectTest
    /\ tries' = tries + 1
    /\ LET nums == [k \in 1..Len(weights) |-> weights[k][1]]
       IN  IF choices_raises(nums)
           THEN /\ pc' = "raised"
                /\ UNCHANGED <<word_idx, word, ignore>>
           ELSE /\ pc' = "select"
                /\ \E i \in choices(nums) :
                      /\ word_idx' = i
                      /\ word' = words[i + 1].w
                      /\ ignore' = Ignored(words[i + 1].w)
    /\ UNCHANGED <<engine, call, words, typos_target, weights, typoed, new_word, is_valid,
                   typo_function, idxs, result>>

\* lines 294 and 310-311: the selection loop ends
SelectDone ==
    /\ pc = "select"
    /\ ~SelectTest
    /\ pc' = IF tries > max_tries THEN "join" ELSE "attempt"
    /\ UNCHANGED <<engine, call, locals, result>>

\* typo_names with the weights random.choices gets (numerators)
typo_weights == [k \in 1..Len(typo_distribution) |-> typo_distribution[k][2]]

\* lines 318-321: the word handed to the operation
WithBoundary(f, w) ==
    IF Is(f, self_method("transpose")) /\ word_idx # Len(words) - 1 /\ " " \notin Range(w)
    THEN w \o <<" ">>
    ELSE w

\* lines 313-325: one pass of the operation loop
Attempt ==
    /\ pc = "attempt"
    /\ AttemptTest
    /\ tries' = tries + 1
    /\ \E n \in choices(typo_weights) :
          LET f == typo_funcs[typo_distribution[n + 1][1]]
              w == WithBoundary(f, word)
          IN  /\ typo_function' = f
              /\ word' = w
              /\ \E out \in Apply(f, w) :
                    IF out.raised
                    THEN /\ pc' = "raised"
                         /\ UNCHANGED <<new_word, idxs, is_valid>>
                    ELSE /\ pc' = "attempt"
                         /\ new_word' = out.new_word
                         /\ idxs' = out.idxs
                         /\ is_valid' = IF out.new_word # w
                                        THEN _is_valid_operation(words[word_idx + 1], out.idxs, f)
                                        ELSE is_valid
    /\ UNCHANGED <<engine, call, words, typos_target, weights, typoed, ignore, word_idx,
                   result>>

\* the history is overwritten with the new entry instead of appended to
RecordedOverwriting(word_history) ==
    [w |-> new_word, history |-> <<[op |-> typo_function, idxs |-> idxs]>>]

\* lines 331-332: the slot after words[word_idx][0] = new_word and the append
Recorded(word_history) ==
    [w |-> new_word,
     history |-> Append(word_history.history, [op |-> typo_function, idxs |-> idxs])]

\* is_valid and new_word are not reset after the edit is recorded
AttemptDoneKeepingFlags ==
    /\ pc = "attempt"
    /\ ~AttemptTest
    /\ IF tries > max_tries
       THEN /\ pc' = "join"
            /\ UNCHANGED locals
       ELSE /\ pc' = "outer"
            /\ weights' = [weights EXCEPT ![word_idx + 1] = <<@[1], 2 * @[2]>>]
            /\ words' = [words EXCEPT ![word_idx + 1] = Recorded(@)]
            /\ typoed' = typoed + 1
            /\ ignore' = TRUE
            /\ UNCHANGED <<typos_target, tries, word_idx, word, typo_function, idxs,
                           is_valid, new_word>>
    /\ UNCHANGED <<engine, call, result>>

\* every slot's weight is halved, not only the edited slot's
AttemptDoneHalvingAll ==
    /\ pc = "attempt"
    /\ ~AttemptTest
    /\ IF tries > max_tries
       THEN /\ pc' = "join"
            /\ UNCHANGED locals
       ELSE /\ pc' = "outer"
            /\ weights' = [k \in 1..Len(weights) |-> <<weights[k][1], 2 * weights[k][2]>>]
            /\ words' = [words EXCEPT ![word_idx + 1] = Recorded(@)]
            /\ typoed' = typoed + 1
            /\ ignore' = TRUE
            /\ is_valid' = FALSE
            /\ new_word' = <<>>
            /\ UNCHANGED <<typos_target, tries, word_idx, word, typo_function, idxs>>
    /\ UNCHANGED <<engine, call, result>>

\* the edit is recorded though the tries ran out
AttemptDoneRecordingLate ==
    /\ pc = "attempt"
    /\ ~AttemptTest
    /\ pc' = IF tries > max_tries THEN "join" ELSE "outer"
    /\ weights' = [weights EXCEPT ![word_idx + 1] = <<@[1], 2 * @[2]>>]
    /\ words' = [words EXCEPT ![word_idx + 1] = Recorded(@)]
    /\ typoed' = typoed + 1
    /\ ignore' = TRUE
    /\ is_valid' = FALSE
    /\ new_word' = <<>>
    /\ UNCHANGED <<typos_target, tries, word_idx, word, typo_function, idxs>>
    /\ UNCHANGED <<engine, call, result>>

\* lines 313 and 327-337: the operation loop ends; the edit is recorded unless the
\* tries ran out
AttemptDone ==
    /\ pc = "attempt"
    /\ ~AttemptTest
    /\ IF tries > max_tries
       THEN /\ pc' = "join"
            /\ UNCHANGED locals
       ELSE /\ pc' = "outer"
            /\ weights' = [weights EXCEPT ![word_idx + 1] = <<@[1], 2 * @[2]>>]
            /\ words' = [words EXCEPT ![word_idx + 1] = Recorded(@)]
            /\ typoed' = typoed + 1
            /\ ignore' = TRUE
            /\ is_valid' = FALSE
            /\ new_word' = <<>>
            /\ UNCHANGED <<typos_target, tries, word_idx, word, typo_function, idxs>>
    /\ UNCHANGED <<engine, call, result>>

\* no separator is added after any word
JoinedUnseparated(final_words) ==
    Flatten([k \in 1..Len(final_words) |-> final_words[k]])

\* the loop of lines 341-345
Joined(final_words) ==
    Flatten([k \in 1..Len(final_words) |->
                IF " " \in Range(final_words[k])
                THEN final_words[k]
                ELSE final_words[k] \o <<" ">>])

\* lines 339-346
Join ==
    /\ pc = "join"
    /\ result' = strip(Joined([k \in 1..Len(words) |-> words[k].w]))
    /\ pc' = "done"
    /\ UNCHANGED <<engine, call, locals>>

\* the call is over (it returned or raised): its locals are dropped, the engine stays
Return ==
    /\ pc \in {"done", "raised"}
    /\ pc' = "idle"
    /\ text' = <<>>
    /\ typo_rate' = <<0, 1>>
    /\ max_tries' = 0
    /\ words' = <<>>
    /\ typos_target' = 0
    /\ weights' = <<>>
    /\ typoed' = 0
    /\ tries' = 0
    /\ new_word' = <<>>
    /\ ignore' = TRUE
    /\ is_valid' = FALSE
    /\ word_idx' = 0
    /\ word' = <<>>
    /\ typo_function' = typo_funcs["delete"]
    /\ idxs' = None
    /\ result' = <<>>
    /\ UNCHANGED engine

\* the engine on its own: insert_typos called on engines of every configuration, the
\* draws of `random` free
Next ==
    \/ \E use \in BOOLEAN, d \in Distributions \cup OtherDistributions :
          __post_init__(use, d) /\ UNCHANGED outside
    \/ Resume
    \/ \E t \in Texts, rate \in TypoRates, mt \in 0..MaxTries :
          Call(t, rate, mt) /\ UNCHANGED outside
    \/ WhileOuter /\ UNCHANGED outside
    \/ SelectWord /\ UNCHANGED outside
    \/ SelectDone /\ UNCHANGED outside
    \/ Attempt /\ UNCHANGED outside
    \/ AttemptDone /\ UNCHANGED outside
    \/ Join /\ UNCHANGED outside
    \/ Return /\ UNCHANGED outside

Spec == Init /\ [][Next]_vars

\* the engine called with any typo_rate: insert_typos (lines 259-270) takes the float
\* it is given
NextAnyRate ==
    \/ \E t \in ShortTexts, rate \in TypoRates \cup OtherRates, mt \in 0..MaxTries :
          Call(t, rate, mt) /\ UNCHANGED outside
    \/ WhileOuter /\ UNCHANGED outside
    \/ SelectWord /\ UNCHANGED outside
    \/ SelectDone /\ UNCHANGED outside
    \/ Attempt /\ UNCHANGED outside
    \/ AttemptDone /\ UNCHANGED outside
    \/ Join /\ UNCHANGED outside
    \/ Return /\ UNCHANGED outside

SpecAnyRate == Init /\ [][NextAnyRate]_vars

(***************************************************************************)
(* TypoErrorGenerator objects and the module-level generator of `random`   *)
(***************************************************************************)
\* max_tries: int = 1000
DefaultMaxTries == 1000

\* random draws are followed up to MaxDrawn after the latest random.seed
MaxDrawn == 4

\* the fields of _TypoEngine()
DefaultEngine ==
    <<TRUE, _normalize_distribution(_DEFAULT_TYPO_DISTRIBUTION), <<90, 10>>>>

\* TypoErrorGenerator(typo_rate, seed) bound to the name self (lines 362-372); seed is
\* <<>> for None
TypoErrorGenerator(self, rate, seed) ==
    /\ pc = "idle"
    /\ applying' = self
    /\ IF ~(0 <= rate[1] /\ rate[1] <= rate[2])
       THEN /\ pc' = "construct_raised"
            /\ UNCHANGED <<instances, rng>>
       ELSE /\ pc' = "constructed"
            /\ instances' = Put(instances, self, [_engine |-> DefaultEngine, _typo_rate |-> rate])
            /\ rng' = IF seed # <<>> THEN [seed |-> seed, drawn |-> 0] ELSE rng
    /\ UNCHANGED <<engine, call, locals, result, registry, registering, multi>>

\* apply (lines 374-375) up to the first test of the outer loop of insert_typos
apply(self, t) ==
    /\ self \in DOMAIN instances
    /\ instances[self]._engine = engine
    /\ Call(t, instances[self]._typo_rate, DefaultMaxTries)
    /\ applying' = self
    /\ UNCHANGED <<registry, registering, instances, rng, multi>>

\* a pass of a loop that calls random.choices / random.choice
Draw ==
    /\ rng.drawn < MaxDrawn
    /\ rng' = [rng EXCEPT !.drawn = @ + 1]
    /\ UNCHANGED <<registry, registering, instances, applying, multi>>

\* arguments of the generators' callers
Objects == {"a", "b"}

Seeds == { <<>>, <<1>>, <<2>> }

GeneratorRates == { <<3, 10>>, <<1, 1>>, <<3, 2>> }

InitGenerators ==
    /\ Init
    /\ engine = DefaultEngine

NextGenerators ==
    \/ \E self \in Objects, rate \in GeneratorRates, seed \in Seeds :
          TypoErrorGenerator(self, rate, seed)
    \/ Resume
    \/ \E self \in Objects, t \in ShortTexts : apply(self, t)
    \/ WhileOuter /\ UNCHANGED outside
    \/ SelectWord /\ Draw
    \/ SelectDone /\ UNCHANGED outside
    \/ Attempt /\ Draw
    \/ AttemptDone /\ UNCHANGED outside
    \/ Join /\ UNCHANGED outside
    \/ Return /\ applying' = "" /\ UNCHANGED <<registry, registering, instances, rng, multi>>

SpecGenerators == InitGenerators /\ [][NextGenerators]_vars

(***************************************************************************)
(* Layout registry of multypo/core.py                                      *)
(***************************************************************************)
\* d.get(k, default)
dict_get(d, k, default) == IF k \in DOMAIN d THEN d[k] ELSE default

\* what MultiTypoGenerator.__post_init__ reads for a registered language (lines 42-49)
lookup(language) ==
    LET lang_code == LANGUAGES[language]
    IN  [lang_code |-> lang_code,
         keyboard |-> KEYBOARDS[lang_code],
         left_right |-> dict_get(LEFT_RIGHTS, lang_code, [left |-> {}, right |-> {}]),
         ignore_set |-> dict_get(IGNORES, lang_code, {})]

\* everything but the registry and the pending call
NotRegistry == <<engine, call, locals, result, instances, rng, applying, multi>>

\* the tables are written first and the clash is tested last
register_checking_last(lang_code, language, keyboard_rows, left_keys, right_keys, ignoring_set) ==
    /\ pc = "idle"
    /\ registering' = [lang_code |-> lang_code, language |-> language]
    /\ pc' = IF language \in DOMAIN LANGUAGES /\ LANGUAGES[language] # lang_code
             THEN "register_raised"
             ELSE "registered"
    /\ LANGUAGES' = LANGUAGES
    /\ KEYBOARDS' = Put(KEYBOARDS, lang_code, keyboard_rows)
    /\ LEFT_RIGHTS' = setdefault(LEFT_RIGHTS, lang_code, [left |-> {}, right |-> {}])
    /\ IGNORES' = setdefault(IGNORES, lang_code, {})
    /\ UNCHANGED NotRegistry

\* register_keyboard_layout (lines 408-465); an optional argument is <<>> for None
\* and <<value>> otherwise
register_keyboard_layout(lang_code, language, keyboard_rows, left_keys, right_keys, ignoring_set) ==
    /\ pc = "idle"
    /\ registering' = [lang_code |-> lang_code, language |-> language]
    /\ IF language \in DOMAIN LANGUAGES /\ LANGUAGES[language] # lang_code
       THEN /\ pc' = "register_raised"
            /\ UNCHANGED registry
       ELSE /\ pc' = "registered"
            /\ LANGUAGES' = Put(LANGUAGES, language, lang_code)
            /\ KEYBOARDS' = Put(KEYBOARDS, lang_code, keyboard_rows)
            /\ LEFT_RIGHTS' =
                  IF left_keys # <<>> /\ right_keys # <<>>
                  THEN Put(LEFT_RIGHTS, lang_code,
                           [left |-> left_keys[1], right |-> right_keys[1]])
                  ELSE setdefault(LEFT_RIGHTS, lang_code, [left |-> {}, right |-> {}])
            /\ IGNORES' =
                  IF ignoring_set # <<>>
                  THEN Put(IGNORES, lang_code, ignoring_set[1])
                  ELSE setdefault(IGNORES, lang_code, {})
    /\ UNCHANGED NotRegistry

\* MultiTypoGenerator(language, typo_distribution=...): __post_init__ (lines 35-51)
\* and _normalize_distribution (lines 53-58)
MultiTypoGenerator(language, distribution) ==
    /\ pc = "idle"
    /\ IF \/ language \notin DOMAIN LANGUAGES
          \/ LANGUAGES[language] \notin DOMAIN KEYBOARDS
          \/ SumSeq([k \in 1..Len(distribution) |-> distribution[k][2]]) <= 0
       THEN /\ pc' = "construct_raised"
            /\ UNCHANGED multi
       ELSE /\ pc' = "constructed"
            /\ multi' = << [language |-> language,
                            layout |-> lookup(language),
                            typo_distribution |-> _normalize_distribution(distribution)] >>
    /\ UNCHANGED <<engine, call, locals, result, registry, registering, instances, rng,
                   applying>>

\* arguments of the registry's callers
LanguageNames == {"english", "english-custom"}

LangCodes == {"en", "en-custom"}

CustomRows == << <<"a", "z">>, <<"q", "s">> >>

KeyboardRows == {EnglishRows, CustomRows}

HandKeys == { <<>>, <<{"a", "q"}>> }

IgnoringSets == { <<>>, <<{<<"t", "w", "o">>}>> }

InitRegistry ==
    /\ Init
    /\ use_excluding_set
    /\ typo_distribution = _normalize_distribution(_DEFAULT_TYPO_DISTRIBUTION)

NextRegistry ==
    \/ \E lang_code \in LangCodes, language \in LanguageNames, keyboard_rows \in KeyboardRows,
          left_keys \in HandKeys, right_keys \in HandKeys, ignoring_set \in IgnoringSets :
          register_keyboard_layout(lang_code, language, keyboard_rows, left_keys,
                                   right_keys, ignoring_set)
    \/ \E language \in LanguageNames \cup {"polish"},
          d \in {_DEFAULT_TYPO_DISTRIBUTION} \cup OtherDistributions :
          MultiTypoGenerator(language, d)
    \/ Resume

SpecRegistry == InitRegistry /\ [][NextRegistry]_vars

(***************************************************************************)
(* The edit operations and the neighbour resolver called on their own:     *)
(* word holds the argument, typo_function the method, new_word and idxs    *)
(* the returned pair, result the candidates the resolver returned          *)
(***************************************************************************)
\* horizontal_vs_vertical as passed to the constructor, in tenths: (9.0, 1.0),
\* (0.4, 2.5), (1.5, 3.5), (0.0, 0.5)
Ratios == { <<90, 10>>, <<4, 25>>, <<15, 35>>, <<0, 5>> }

\* the words the operations are called on
Words ==
    { <<"a">>,
      <<"a", "b">>,
      <<"a", ".">>,
      <<"k", "o", "t">>,
      <<"k", "o", "t", " ">>,
      <<"k", "O", "p">>,
      <<"k", "-", "t">>,
      <<"k", "o", "t", "y">>,
      <<"b", "a", "a", "a">>,
      <<"b", "a", "a", "b">>,
      <<"m", "a^", "z^">>,
      <<"S", "S", "A", "K">>,
      <<"p", "a", "n", "e", "m">> }

\* the characters the resolver is called on
Chars == Range(LowerLetters) \cup {"A", ".", " ", ""}

\* a call typo_function(word) by itself (lines 150-220)
Operate(f, w) ==
    /\ pc = "idle"
    /\ word' = w
    /\ typo_function' = f
    /\ \E out \in Apply(f, w) :
          /\ pc' = IF out.raised THEN "operation_raised" ELSE "operated"
          /\ new_word' = out.new_word
          /\ idxs' = out.idxs
    /\ UNCHANGED <<engine, call, words, typos_target, weights, typoed, tries, ignore,
                   is_valid, word_idx, result>>

\* a call self._get_neighbours_with_orientation(char) by itself (lines 83-121)
Resolve(char) ==
    /\ pc = "idle"
    /\ word' = <<char>>
    /\ result' = _get_neighbours_with_orientation(char)
    /\ pc' = "resolved"
    /\ UNCHANGED <<engine, call, words, typos_target, weights, typoed, tries, new_word,
                   ignore, is_valid, word_idx, typo_function, idxs>>

\* the caller goes on after an operation or the resolver returned or raised
OperationReturn ==
    /\ pc \in {"operated", "operation_raised", "resolved"}
    /\ pc' = "idle"
    /\ word' = <<>>
    /\ new_word' = <<>>
    /\ idxs' = None
    /\ typo_function' = typo_funcs["delete"]
    /\ result' = <<>>
    /\ UNCHANGED <<engine, call, words, typos_target, weights, typoed, tries, ignore,
                   is_valid, word_idx>>

\* an engine built with any of the ratios, before any call
InitOperations ==
    /\ use_excluding_set = TRUE
    /\ typo_distribution = _normalize_distribution(_DEFAULT_TYPO_DISTRIBUTION)
    /\ horizontal_vs_vertical \in Ratios
    /\ pc = "idle"
    /\ text = <<>>
    /\ typo_rate = <<0, 1>>
    /\ max_tries = 0
    /\ words = <<>>
    /\ typos_target = 0
    /\ weights = <<>>
    /\ typoed = 0
    /\ tries = 0
    /\ new_word = <<>>
    /\ ignore = TRUE
    /\ is_valid = FALSE
    /\ word_idx = 0
    /\ word = <<>>
    /\ typo_function = typo_funcs["delete"]
    /\ idxs = None
    /\ result = <<>>
    /\ InitOutside

NextOperations ==
    \/ \E name \in TypoNames, w \in Words : Operate(typo_funcs[name], w) /\ UNCHANGED outside
    \/ \E char \in Chars : Resolve(char) /\ UNCHANGED outside
    \/ OperationReturn /\ UNCHANGED outside

SpecOperations == InitOperations /\ [][NextOperations]_vars

(***************************************************************************)
(* Properties                                                              *)
(***************************************************************************)
\* the word slots of the input, as split
Originals == split(text)

\* an insert_typos call is under way or has just ended
InCall == pc \in {"outer", "select", "attempt", "join", "done", "raised"}

HistoryEntries == SumSeq([k \in 1..Len(words) |-> Len(words[k].history)])

IsPrefix(a, b) == Len(a) <= Len(b) /\ SubSeq(b, 1, Len(a)) = a

\* C1: a call whose target rounds to zero (typo_rate = 0, or typo_rate * wordCount
\* < 0.5) returns the input text character for character: it never enters the loop,
\* draws nothing (tries stays 0) and edits no slot.
C1_ZeroTargetReturnsInput ==
    (InCall /\ 2 * typo_rate[1] * Len(Originals) < typo_rate[2])
        => /\ pc = "done"
           /\ result = text
           /\ tries = 0
           /\ typoed = 0
           /\ \A k \in 1..Len(words) : words[k] = [w |-> Originals[k], history |-> <<>>]

\* "sto\n" at typo_rate 0.25 comes back with its newline
C1_Witness ==
    /\ pc = "done"
    /\ text = <<"s", "t", "o", "\n">>
    /\ typo_rate = <<1, 4>>
    /\ result = text
    /\ result # strip(text)

\* the Conflict Validator table: is the later entry rejected given the earlier one
TableRejects(prev, new) ==
    LET shares == prev.idxs = new.idxs \/ SharesIndex(prev.idxs, new.idxs)
    IN  \/ /\ prev.op.func = "replace"
           /\ \/ new.op.func = "insert" /\ new.idxs[1] = prev.idxs[1] + 1
              \/ shares
        \/ /\ prev.op.func = "delete"
           /\ new.op.func = "transpose"
           /\ new.idxs[2] = prev.idxs[1]
        \/ /\ prev.op.func = "insert"
           /\ \/ /\ new.op.func \in {"replace", "delete"}
                 /\ (new.idxs = prev.idxs \/ new.idxs[1] = prev.idxs[1] - 1)
              \/ /\ new.op.func = "insert"
                 /\ (new.idxs = prev.idxs \/ new.idxs[1] = prev.idxs[1] + 1)
              \/ /\ new.op.func = "transpose"
                 /\ shares
        \/ /\ prev.op.func = "transpose"
           /\ new.op.func \in {"transpose", "insert", "delete"}
           /\ shares

\* C2: in every state of a call, no later entry of a word's history is one the
\* Conflict Validator table rejects given an earlier entry of that history.
C2_HistoryRespectsTable ==
    \A k \in 1..Len(words) :
        \A i, j \in 1..Len(words[k].history) :
            i < j => ~TableRejects(words[k].history[i], words[k].history[j])

\* C3: a call that ends with typoed > 0 returns a text different from its input,
\* whatever the accepted edits were (a later edit never undoes an earlier one).
C3_EditedTextDiffers ==
    (pc = "done" /\ typoed > 0) => result # text

KotPsa == <<"k", "o", "t", " ", "p", "s", "a">>

\* a call that left its loop with tries to spare did so because typoed reached the
\* target, and ends the same way under every larger max_tries (1000 included)
WithinBudget == tries <= max_tries

DefaultDistribution ==
    typo_distribution = _normalize_distribution(_DEFAULT_TYPO_DISTRIBUTION)

\* C4 as claimed: insert_typos("kot psa", 1.0) with the default distribution and
\* tries to spare ends with exactly one recorded edit on each of the two words.
C4_OneEditPerWord ==
    (pc = "done" /\ text = KotPsa /\ typo_rate = <<1, 1>> /\ DefaultDistribution
        /\ WithinBudget)
        => \A k \in 1..2 : Len(words[k].history) = 1

\* C4, amended: insert_typos("kot psa", 1.0) never raises and ends with at most two
\* recorded edits over the two words, typoed counting them, and with exactly two
\* when the tries did not run out; the two may be on the same word.
C4_TwoEditsInTotal ==
    (InCall /\ text = KotPsa /\ typo_rate = <<1, 1>>)
        => /\ pc # "raised"
           /\ Len(words) = 2
           /\ HistoryEntries = typoed
           /\ typoed <= 2
           /\ (pc = "done" /\ WithinBudget) => typoed = 2

\* "kot psa" with one edit on each word
C4_Witness ==
    /\ pc = "done"
    /\ text = KotPsa
    /\ typo_rate = <<1, 1>>
    /\ DefaultDistribution
    /\ WithinBudget
    /\ \A k \in 1..2 : Len(words[k].history) = 1

\* every word (non-empty slot) of the input contains an ignore-set token, whatever
\* its case
AllSlotsIgnored ==
    \A slots \in {Originals} :
        \A k \in 1..Len(slots) :
            slots[k] # <<>> =>
                \E lowered \in {SubSeq(lower_word(slots[k]), 1, Len(slots[k]))} :
                    \E i \in _IGNORE_SET : Contains(lowered, i)

C6_ShortSlotsUntouched ==
    /\ pc = "attempt" => Len(words[word_idx + 1].w) >= 2
    /\ InCall =>
          \A k \in 1..Len(words) :
              Len(Originals[k]) <= 1 => words[k] = [w |-> Originals[k], history |-> <<>>]

\* a pass of the selection loop that picks a slot of length <= 1 costs one try and
\* leaves the word to be picked again
C6_ShortPickCostsOneTry ==
    (pc = "select" /\ pc' = "select" /\ tries' # tries /\ Len(words[word_idx' + 1].w) <= 1)
        => /\ tries' = tries + 1
           /\ ignore'
           /\ words' = words
           /\ typoed' = typoed

C7_AppendOnly ==
    (InCall /\ pc' # "idle")
        => /\ Len(words') = Len(words)
           /\ \A k \in 1..Len(words) : IsPrefix(words[k].history, words'[k].history)

\* a call starts with empty histories, whatever the call before it left
C7_StartsEmpty ==
    (pc = "idle" /\ pc' # "idle")
        => /\ typoed' = 0
           /\ \A k \in 1..Len(words') : words'[k].history = <<>>

\* C7: typoed always equals the number of history entries over all slots, entries
\* are only appended during a call, and every call starts with empty histories.
C7_TypoedCountsHistory ==
    [](typoed = HistoryEntries) /\ [][C7_AppendOnly /\ C7_StartsEmpty]_vars

\* two edits recorded on one slot
C7_Witness ==
    /\ typoed = 2
    /\ \E k \in 1..Len(words) : Len(words[k].history) = 2

DeleteOnly == \A n \in 1..Len(typo_distribution) :
                  typo_distribution[n][2] > 0 => typo_distribution[n][1] = "delete"

\* C8: with typo_distribution = {delete: 1.0} every recorded edit is a deletion and
\* every slot is shorter than its original by the number of edits recorded on it.
C8_DeleteOnlyShortens ==
    (InCall /\ DeleteOnly)
        => \A k \in 1..Len(words) :
              /\ \A e \in Range(words[k].history) : e.op.func = "delete"
              /\ Len(words[k].w) = Len(Originals[k]) - Len(words[k].history)

\* two deletions on one slot
C8_Witness ==
    /\ DeleteOnly
    /\ pc = "done"
    /\ \E k \in 1..Len(words) :
          Len(words[k].history) = 2 /\ Len(words[k].w) = Len(Originals[k]) - 2

\* C11: in every state of a call typo_rate lies in [0.0, 1.0] (any other rate was
\* rejected before the call) and 0 <= typoed <= target <= wordCount.
C11_TargetWithinWordCount ==
    InCall =>
        /\ 0 <= typo_rate[1] /\ typo_rate[1] <= typo_rate[2]
        /\ 0 <= typoed
        /\ typoed <= typos_target
        /\ typos_target <= Len(words)

\* a register_keyboard_layout call
RegisterStep == pc = "idle" /\ pc' \in {"registered", "register_raised"}

\* the call names a language already mapped to another code
Clashes ==
    /\ registering'.language \in DOMAIN LANGUAGES
    /\ LANGUAGES[registering'.language] # registering'.lang_code

\* C12: a register call whose language is already mapped to a different code fails
\* and leaves LANGUAGES, KEYBOARDS, LEFT_RIGHTS and IGNORES as they were; no other
\* register call fails.
C12_ClashingRegisterFails ==
    [][RegisterStep =>
          /\ Clashes => (pc' = "register_raised" /\ registry' = registry)
          /\ pc' = "register_raised" => Clashes]_vars

\* "english-custom" is mapped to "en-custom" and a call maps it to "en"
C12_Witness ==
    /\ pc = "register_raised"
    /\ registering = [lang_code |-> "en", language |-> "english-custom"]
    /\ LANGUAGES["english-custom"] = "en-custom"

\* C13: once a language is registered, the layout lookup returns for it never
\* changes, whatever register calls follow.
C13_LayoutImmutable ==
    [][\A language \in DOMAIN LANGUAGES :
          /\ language \in DOMAIN LANGUAGES'
          /\ lookup(language)' = lookup(language)]_vars

\* C14: the engine holds a typo distribution whose weights are all >= 0 and sum to 1
\* (a constructor given anything else raised and returned no engine).
C14_DistributionNormalized ==
    /\ \A k \in 1..Len(typo_distribution) :
          typo_distribution[k][2] >= 0 /\ typo_distribution[k][3] > 0
    /\ SumSeq(typo_weights) = typo_distribution[1][3]

\* C15: generator objects share no mutable state: a step of one object's __init__ or
\* apply changes nothing that another object's apply reads (that object's fields and
\* the random generator it draws from), so no interleaving changes its output.
C15_NoSharedState ==
    [][\A self \in DOMAIN instances :
          (applying' # "" /\ applying' # self)
              => (instances'[self] = instances[self] /\ rng' = rng)]_vars

\* the proposal that the latest changing attempt made
Proposal == [op |-> typo_function, idxs |-> idxs]

\* C16: _is_valid_operation returns false exactly when some earlier entry of the
\* word's history matches the rule table against the proposed (operation, indices).
C16_ValidatorFollowsTable ==
    (pc = "attempt" /\ new_word # word /\ idxs # None)
        => (_is_valid_operation(words[word_idx + 1], idxs, typo_function)
               <=> ~\E e \in Range(words[word_idx + 1].history) : TableRejects(e, Proposal))

\* between two words the change flag and the validation result are reset, and inside
\* the operation loop is_valid is only set together with a changed word
C17_FlagsFresh ==
    /\ pc \in {"outer", "select"} => (~is_valid /\ new_word = <<>>)
    /\ (pc = "attempt" /\ is_valid) => new_word # word

\* the step that records an edit
Records == pc = "attempt" /\ typoed' # typoed

\* what is recorded is what the latest attempt produced from the working word, and
\* the validator accepts it
C17_RecordsLatestAttempt ==
    Records =>
        /\ new_word # word
        /\ is_valid
        /\ _is_valid_operation(words[word_idx + 1], idxs, typo_function)
        /\ word \in {words[word_idx + 1].w, words[word_idx + 1].w \o <<" ">>}
        /\ \E out \in Apply(typo_function, word) :
              ~out.raised /\ out.new_word = new_word /\ out.idxs = idxs
        /\ words'[word_idx + 1].w = new_word
        /\ typoed' = typoed + 1

\* C17: an edit is recorded only if the attempt just before it returned a word
\* different from the working word and the validator returned true for that attempt's
\* (operation, indices); no flag of an earlier attempt or word is reused.
C17_OnlyFreshValidatedChange ==
    []C17_FlagsFresh /\ [][C17_RecordsLatestAttempt]_vars

\* a second edit, validated against the first, is about to be recorded
C17_Witness ==
    /\ pc = "attempt"
    /\ is_valid
    /\ new_word # word
    /\ typoed = 1
    /\ Len(words[word_idx + 1].history) = 1

\* C18: when insert_typos leaves its main loop, typoed == target or tries > max_tries.
C18_LoopEndsOnTargetOrBudget ==
    pc \in {"join", "raised"} => (typoed = typos_target \/ tries > max_tries)

\* C19: an operation attempt hands the working word to the operation with one
\* trailing space appended when the operation is transpose, the word is not the
\* last of the text and holds no space, and as it is in every other case.
C19_SpaceAppendedForTranspose ==
    [][(pc = "attempt" /\ tries' = tries + 1)
          => word' = IF /\ typo_function'.func = "transpose"
                        /\ word_idx # Len(words) - 1
                        /\ " " \notin Range(word)
                     THEN word \o <<" ">>
                     ELSE word]_vars

\* a step inside one call
CallStep == InCall /\ pc' # "idle"

\* the weight is halved: <<n, d>> becomes a fraction equal to n / (2 d)
Halved(before, after) == 2 * after[1] * before[2] = before[1] * after[2]

C20_AcceptFrame ==
    CallStep =>
        IF typoed' # typoed
        THEN /\ typoed' = typoed + 1
             /\ Halved(weights[word_idx + 1], weights'[word_idx + 1])
             /\ words'[word_idx + 1].w = new_word
             /\ words'[word_idx + 1].history = Append(words[word_idx + 1].history, Proposal)
             /\ \A j \in 1..Len(words) :
                   j # word_idx + 1 => (words'[j] = words[j] /\ weights'[j] = weights[j])
             /\ Len(words') = Len(words)
        ELSE words' = words /\ weights' = weights

\* C20: accepting an edit on slot k halves slot k's weight, replaces its string,
\* appends one entry to its history and adds one to typoed, every other slot keeping
\* string, history and weight; no other step of a call changes a slot or a weight.
C20_AcceptTouchesOneSlot ==
    [][C20_AcceptFrame]_vars

\* one slot edited and its weight halved, the other slot as it was
C20_Witness ==
    /\ pc = "outer"
    /\ typoed = 1
    /\ Len(words) = 2
    /\ \E k \in 1..2 :
          /\ Len(words[k].history) = 1
          /\ weights[k][2] = 200
          /\ words[3 - k] = [w |-> Originals[3 - k], history |-> <<>>]
          /\ weights[3 - k][2] = 100

\* C21: the first character of a non-empty word slot is never changed, removed or
\* moved: in every state of a call each slot of a non-empty original word is non-empty
\* and starts with the first character of that original word.
C21_FirstCharacterKept ==
    InCall => \A slots \in {Originals} :
                 \A k \in 1..Len(words) :
                    slots[k] # <<>>
                        => (words[k].w # <<>> /\ words[k].w[1] = slots[k][1])

\* a slot edited twice and cut down to its first character
C21_Witness ==
    /\ InCall
    /\ \E k \in 1..Len(words) :
          /\ Len(words[k].history) = 2
          /\ Len(Originals[k]) = 3
          /\ words[k].w = <<Originals[k][1]>>

\* the number of times c occurs in the list s
Count(s, c) == Cardinality({ k \in 1..Len(s) : s[k] = c })

\* the grid C22 says is searched for char
SearchedGrid(char) ==
    IF \E e \in _DIACRITICAL_MAP : e[1] = char THEN _ALTGR_KEYBOARD ELSE _KEYBOARD

\* how often c occurs in the reference multiset of char's neighbours
ReferenceCount(char, c) ==
    LET grid == SearchedGrid(char)
        h == IF PyRound(horizontal_vs_vertical[1]) > 1
             THEN PyRound(horizontal_vs_vertical[1]) ELSE 1
        v == IF PyRound(horizontal_vs_vertical[2]) > 1
             THEN PyRound(horizontal_vs_vertical[2]) ELSE 1
        Holds(r, col) == /\ r \in 1..Len(grid)
                         /\ col \in 1..Len(grid[r])
                         /\ grid[r][col] = c
                         /\ c # ""
        cells == { p \in UNION { {r} \X (1..Len(grid[r])) : r \in 1..Len(grid) } :
                     grid[p[1]][p[2]] = char }
        beside == { q \in cells \X {-1, 1} : Holds(q[1][1], q[1][2] + q[2]) }
        above_below == { q \in cells \X {-1, 1} : Holds(q[1][1] + q[2], q[1][2]) }
    IN  h * Cardinality(beside) + v * Cardinality(above_below)

\* C22: the resolver returns the reference multiset: per matching cell of the searched
\* grid, the left and right neighbours max(1, round(hRatio)) times each and the
\* neighbours above and below max(1, round(vRatio)) times each; nothing for a
\* character in no cell.
C22_NeighboursAreReference ==
    pc = "resolved" =>
        \A c \in Range(result) \cup Range(LowerLetters) \cup {""} :
            Count(result, c) = ReferenceCount(word[1], c)

\* e-ogonek, found in the alternate grid, with ratios (1.5, 3.5): w and r twice, d
\* four times
C22_Witness ==
    /\ pc = "resolved"
    /\ word = <<"e^">>
    /\ horizontal_vs_vertical = <<15, 35>>
    /\ result = <<"w", "w", "r", "r", "d", "d", "d", "d">>

\* the hand a character is typed with, "" for neither
Hand(char) ==
    IF lower(char) \in _LEFT_RIGHT.left THEN "left"
    ELSE IF lower(char) \in _LEFT_RIGHT.right THEN "right"
    ELSE ""

\* the 0-based indices i for which (i, i + 1) is an eligible pair of w[1:]: characters
\* of different hands, or the second one a space
EligiblePairs(w) ==
    { i \in 0..(Len(w) - 3) :
        \/ (Hand(w[i + 2]) # "" /\ Hand(w[i + 3]) # "" /\ Hand(w[i + 2]) # Hand(w[i + 3]))
        \/ w[i + 3] = " " }

\* w with the characters of the pair (i, i + 1) of w[1:] swapped
SwappedAt(w, i) == [w EXCEPT ![i + 2] = w[i + 3], ![i + 3] = w[i + 2]]

\* a call of transpose has returned
Transposed == pc = "operated" /\ typo_function.func = "transpose"

\* C23: transpose returns the word unchanged with a null index marker exactly when no
\* pair is eligible; when a pair is eligible it swaps exactly one eligible pair and the
\* result differs from the input.
C23_TransposeSwapsWhenEligible ==
    Transposed =>
        IF EligiblePairs(word) = {}
        THEN new_word = word /\ idxs = None
        ELSE /\ idxs # None
             /\ new_word # word
             /\ \E i \in EligiblePairs(word) : new_word = SwappedAt(word, i)

\* the first (lowest) eligible pair of w
FirstEligible(w) == CHOOSE i \in EligiblePairs(w) : \A j \in EligiblePairs(w) : i <= j

\* C29: transpose weights its eligible pairs with the Position Weighter applied to the
\* list of pairs: one eligible pair has the weight list [0] and the word comes back
\* unchanged with a null marker; of two or more the first is never chosen, and of
\* exactly two the second always is.
C29_FirstPairNeverChosen ==
    Transposed =>
        LET pairs == EligiblePairs(word)
        IN  /\ Cardinality(pairs) = 1
                => /\ _get_weights_of_idx(<<FirstEligible(word)>>) = <<0>>
                   /\ new_word = word
                   /\ idxs = None
            /\ Cardinality(pairs) >= 2
                => /\ idxs # <<FirstEligible(word), FirstEligible(word) + 1>>
                   /\ new_word # SwappedAt(word, FirstEligible(word))
            /\ Cardinality(pairs) = 2
                => \E i \in pairs \ {FirstEligible(word)} :
                      idxs = <<i, i + 1>> /\ new_word = SwappedAt(word, i)

\* "koty" has the eligible pairs (o, t) and (t, y): the second was swapped
C29_Witness ==
    /\ Transposed
    /\ word = <<"k", "o", "t", "y">>
    /\ new_word = <<"k", "o", "y", "t">>
    /\ idxs = <<1, 2>>

\* a call of f that returned a changed word
Changed(f) == pc = "operated" /\ typo_function.func = f /\ new_word # word

\* c is a keyboard neighbour of the lowercased char, in char's case
NeighbourInCaseOf(c, char) ==
    /\ \E n \in Range(_get_neighbours_with_orientation(lower(char))) :
          c = IF isupper(char) THEN upper(n) ELSE n
    /\ isupper(c) <=> isupper(char)

\* C24: a character that insert or replace brings into a word is a keyboard neighbour
\* of the lowercased character at the sampled index (>= 1), in that character's case;
\* insert puts it right after the sampled index and keeps every other character in
\* order (length + 1), replace keeps the length and writes nothing else.
C24_IntroducedIsCasedNeighbour ==
    /\ Changed("insert") =>
          LET idx == idxs[1] - 1
          IN  /\ idx >= 1
              /\ Len(new_word) = Len(word) + 1
              /\ NeighbourInCaseOf(new_word[idx + 2], word[idx + 1])
              /\ SubSeq(new_word, 1, idx + 1) = SubSeq(word, 1, idx + 1)
              /\ SubSeq(new_word, idx + 3, Len(new_word)) = SubSeq(word, idx + 2, Len(word))
    /\ Changed("replace") =>
          LET idx == idxs[1]
          IN  /\ idx >= 1
              /\ Len(new_word) = Len(word)
              /\ NeighbourInCaseOf(new_word[idx + 1], word[idx + 1])
              /\ \A k \in 1..Len(word) :
                    new_word[k] # word[k] => new_word[k] = new_word[idx + 1]

\* "kOp": an uppercase neighbour of O was inserted after it
C24_Witness ==
    /\ Changed("insert")
    /\ word = <<"k", "O", "p">>
    /\ new_word = <<"k", "O", "I", "p">>
    /\ idxs = <<2>>

\* the sampled index of a replace has an immediate successor equal to the character
\* at the sampled index
SuccessorRepeats(w, idx) == idx + 2 <= Len(w) /\ w[idx + 2] = w[idx + 1]

\* C25: when replace substitutes at the sampled index and the next character equals
\* the original character there, the next character gets the same replacement, the
\* backward double-letter extension applying or not.
C25_SuccessorFollows ==
    (Changed("replace") /\ SuccessorRepeats(word, idxs[1]))
        => /\ new_word[idxs[1] + 1] # word[idxs[1] + 1]
           /\ new_word[idxs[1] + 2] = new_word[idxs[1] + 1]

\* the 0-based positions at which a and b differ (a and b of one length)
Differing(a, b) == { k - 1 : k \in { j \in 1..Len(a) : a[j] # b[j] } }

\* C26: for an operation that changed the word, idxs lists, as indices into the whole
\* word, every position touched: the position deleted, the position of the inserted
\* character, every position replace wrote (back-extended and propagated ones
\* included), and the positions in the word of the two characters transpose swapped.
C26_IdxsAreTouchedPositions ==
    /\ Changed("delete") => new_word = DelAt(word, idxs[1])
    /\ Changed("insert") => /\ Len(new_word) = Len(word) + 1
                            /\ DelAt(new_word, idxs[1]) = word
    /\ Changed("replace") => Differing(word, new_word) \subseteq Range(idxs)
    /\ Changed("transpose") => Differing(word, new_word) = Range(idxs)

\* an insert or replace attempt that sampled a character without keyboard neighbours
NoNeighbourAttempt ==
    /\ pc = "attempt"
    /\ pc' = "attempt"
    /\ tries' # tries
    /\ typo_function'.func \in {"insert", "replace"}
    /\ LET idx == IF typo_function'.func = "insert" THEN idxs'[1] - 1 ELSE idxs'[1]
       IN  _get_neighbours_with_orientation(lower(word'[idx + 1])) = <<>>

\* such an attempt hands the word back unchanged, records nothing and costs one try
C27_NoopAttemptStep ==
    NoNeighbourAttempt =>
        /\ new_word' = word'
        /\ tries' = tries + 1
        /\ words' = words
        /\ weights' = weights
        /\ typoed' = typoed
        /\ word_idx' = word_idx

\* the latest insert or replace attempt gave the word back unchanged
AfterNoop ==
    /\ pc = "attempt"
    /\ new_word = word
    /\ typo_function.func \in {"insert", "replace"}

\* the next step is another operation attempt on the same word
AttemptsAgain ==
    /\ tries' = tries + 1
    /\ pc' \in {"attempt", "raised"}
    /\ word_idx' = word_idx
    /\ word' \in {word, word \o <<" ">>}
    /\ words' = words
    /\ typoed' = typoed

\* C27: an insert or replace attempt whose sampled character has no keyboard
\* neighbour raises nothing and returns the word unchanged; no edit is recorded for it,
\* it costs exactly one try, and the loop goes on with a new operation attempt on the
\* same word.
C27_NoopAttemptRetried ==
    [][C27_NoopAttemptStep /\ (AfterNoop => AttemptsAgain)]_vars

\* C27 as the code has it: the loop goes on with a new attempt on the same word while
\* tries <= max_tries; when the no-op attempt took tries past max_tries the session
\* leaves the loops with nothing recorded for the word.
C27_NoopAttemptRetriedWithinBudget ==
    [][/\ C27_NoopAttemptStep
       /\ AfterNoop => IF tries <= max_tries
                       THEN AttemptsAgain
                       ELSE pc' = "join" /\ UNCHANGED locals]_vars

\* replace sampled the "\n" of "sto\n", which no grid holds, with tries to spare
C27_Witness ==
    /\ AfterNoop
    /\ word = <<"s", "t", "o", "\n">>
    /\ typo_function.func = "replace"
    /\ idxs = <<3>>
    /\ tries <= max_tries

\* once the try counter has passed max_tries no step of the call records anything
C28_LateResultDiscarded ==
    (CallStep /\ tries > max_tries) => (words' = words /\ typoed' = typoed)

\* C28: one insert_typos session accepts at most floor(max_tries / 2) edits: each
\* accepted edit costs at least one selection try and one operation try, and what the
\* try that takes the counter to max_tries + 1 selected or produced is not recorded.
C28_EditsWithinHalfBudget ==
    /\ [](InCall => (typoed <= max_tries \div 2 /\ 2 * typoed <= tries))
    /\ [][C28_LateResultDiscarded]_vars

\* max_tries = 3: one edit recorded, and the validated change of try 4 is about to be
\* dropped
C28_Witness ==
    /\ pc = "attempt"
    /\ max_tries = 3
    /\ tries = 4
    /\ typoed = 1
    /\ new_word # word
    /\ is_valid

\* the words of the text are non-empty and separated by single spaces, and the text
\* neither starts nor ends with whitespace
WellSpaced ==
    /\ text # <<>>
    /\ \A slots \in {Originals} : \A k \in 1..Len(slots) : slots[k] # <<>>
    /\ text[1] \notin Whitespace
    /\ text[Len(text)] \notin Whitespace

\* C30: for a text of non-empty words separated by single spaces, on the Polish grids
\* (which hold no space key), every slot holds at most one space in every state of the
\* call, and the returned text holds as many spaces as the input.
C30_SpacesPreserved ==
    (InCall /\ WellSpaced) =>
        /\ \A k \in 1..Len(words) : Count(words[k].w, " ") <= 1
        /\ pc = "done" => Count(result, " ") = Count(text, " ")

\* no word of the text holds a whitespace character
NoWhitespaceInWords ==
    \A slots \in {Originals} :
        \A k \in 1..Len(slots) : Range(slots[k]) \cap Whitespace = {}

\* C30 as the code has it: the same, for texts whose words hold no whitespace
\* character at all (the final strip() removes a last slot that an edit left with
\* whitespace only, and the separator before it).
C30_SpacesPreservedInPlainWords ==
    (InCall /\ WellSpaced /\ NoWhitespaceInWords) =>
        /\ \A k \in 1..Len(words) : Count(words[k].w, " ") <= 1
        /\ pc = "done" => Count(result, " ") = Count(text, " ")

\* "kot psa" came back with two edits and its one space
C30_Witness ==
    /\ pc = "done"
    /\ text = KotPsa
    /\ typoed = 2
    /\ result # text
    /\ Count(result, " ") = 1

\* C10: a call never raises, and tries never exceeds max_tries + 1.
C10_NeverRaises ==
    /\ pc # "raised"
    /\ tries <= max_tries + 1

====
